---------------------------- MODULE Spec2Model ----------------------------
(***************************************************************************)
(* Music file renaming tool: the batch pipeline of the desktop front end   *)
(* (Worker, MusicRenamer in the GUI source) and of the interactive         *)
(* terminal front end (InteractiveMusicRenamer).                           *)
(*                                                                         *)
(* A Python str is a sequence of code points.  Each code point is written  *)
(* as a TLA+ string: printable ASCII as itself, the others by name         *)
(* ("NUL" = 0x00, "US" = 0x1F, "DEL" = 0x7F, "LS" = U+2028, "PS" = U+2029, *)
(* "U+3000" = ideographic space, "U+672A" ... = the CJK fallback texts).   *)
(***************************************************************************)
EXTENDS Integers, Sequences, FiniteSets, TLC

(***************************************************************************)
(* Bounds of the model.                                                    *)
(***************************************************************************)
\* longest file list handed to one batch
MaxFiles == 3
\* largest "_k" suffix already present on disk before the batch
MaxSuffix == 1

(***************************************************************************)
(* Python values.                                                          *)
(***************************************************************************)
\* Python's None (a value that is no str)
None == <<"<None>">>

\* truth value of an Optional[str]: None and '' are falsy
Truthy(v) == v # None /\ v # << >>

(***************************************************************************)
(* Character classes used by clean_filename and str.strip.                 *)
(***************************************************************************)
\* the class [<>:"/\\|?*]
ForbiddenChars == {"<", ">", ":", "\"", "/", "\\", "|", "?", "*"}

\* the class [\x00-\x1f\x7f], as far as the alphabet of the model goes
ControlChars == {"NUL", "\t", "\n", "\r", "US", "DEL"}

\* U+2028 and U+2029
LineSeparators == {"LS", "PS"}

\* code points c with c.isspace(), as far as the alphabet of the model goes
Whitespace == {" ", "\t", "\n", "\r", "US", "LS", "PS", "U+3000"}

\* the argument of new_name.strip('-_ ')
SeparatorStripSet == {"-", "_", " "}

(***************************************************************************)
(* str operations.                                                         *)
(***************************************************************************)
\* s[from:] for a 1-based from
Drop(s, k) == SubSeq(s, k + 1, Len(s))

\* s.startswith(pat)
StartsWith(s, pat) == Len(pat) <= Len(s) /\ SubSeq(s, 1, Len(pat)) = pat

RECURSIVE StrReplace(_, _, _)
\* s.replace(old, new): leftmost non-overlapping occurrences, one pass
StrReplace(s, old, new) ==
    IF s = << >> THEN << >>
    ELSE IF old # << >> /\ StartsWith(s, old)
         THEN new \o StrReplace(Drop(s, Len(old)), old, new)
         ELSE <<Head(s)>> \o StrReplace(Tail(s), old, new)

\* re.sub(r'[set]', rep, s) for a character class
SubClass(s, set, rep) == [k \in 1..Len(s) |-> IF s[k] \in set THEN rep ELSE s[k]]

RECURSIVE LStrip(_, _)
LStrip(s, set) ==
    IF s # << >> /\ Head(s) \in set THEN LStrip(Tail(s), set) ELSE s

RECURSIVE RStrip(_, _)
RStrip(s, set) ==
    IF s # << >> /\ s[Len(s)] \in set THEN RStrip(SubSeq(s, 1, Len(s) - 1), set) ELSE s

\* s.strip(chars)
StripChars(s, set) == RStrip(LStrip(s, set), set)

\* s.strip()
Strip(s) == StripChars(s, Whitespace)

\* length of the longest prefix of s made of '-' and '_'
RECURSIVE RunLen(_)
RunLen(s) == IF s # << >> /\ Head(s) \in {"-", "_"} THEN 1 + RunLen(Tail(s)) ELSE 0

RECURSIVE CollapseSeparators(_)
\* re.sub(r'[-_]{2,}', '-', s)
CollapseSeparators(s) ==
    IF s = << >> THEN << >>
    ELSE IF RunLen(s) >= 2
         THEN <<"-">> \o CollapseSeparators(Drop(s, RunLen(s)))
         ELSE <<Head(s)>> \o CollapseSeparators(Tail(s))

\* str(counter) for the suffix counters of the model
Digits == <<"0", "1", "2", "3", "4", "5", "6", "7", "8", "9">>

RECURSIVE IntToStr(_)
IntToStr(n) == IF n < 10 THEN <<Digits[n + 1]>>
               ELSE IntToStr(n \div 10) \o <<Digits[(n % 10) + 1]>>

\* f"{new_name}_{counter}"
WithCounter(new_name, counter) == new_name \o <<"_">> \o IntToStr(counter)

(***************************************************************************)
(* clean_filename and generate_new_name.                                   *)
(***************************************************************************)
\* a cleaning that trims first and turns control characters into blanks
CleanControlsToSpaces(name) ==
    SubClass(Strip(SubClass(name, ForbiddenChars, "_")), ControlChars, " ")

\* a cleaning that only trims
CleanStripOnly(name) == Strip(name)

\* Worker.clean_filename / InteractiveMusicRenamer.clean_filename
clean_filename(name) ==
    IF name = << >> THEN << >>
    ELSE Strip(SubClass(SubClass(SubClass(name, ForbiddenChars, "_"),
                                 ControlChars, "_"),
                        LineSeparators, "_"))

\* placeholders
PhTitle == <<"%", "t", "i", "t", "l", "e", "%">>
PhArtist == <<"%", "a", "r", "t", "i", "s", "t", "%">>
PhAlbum == <<"%", "a", "l", "b", "u", "m", "%">>
PhTrack == <<"%", "t", "r", "a", "c", "k", "%">>
PhYear == <<"%", "y", "e", "a", "r", "%">>
PhGenre == <<"%", "g", "e", "n", "r", "e", "%">>

\* the fallback texts of both front ends
UnknownTitle == <<"U+672A", "U+77E5", "U+6807", "U+9898">>
UnknownArtist == <<"U+672A", "U+77E5", "U+827A", "U+672F", "U+5BB6">>
UnknownAlbum == <<"U+672A", "U+77E5", "U+4E13", "U+8F91">>

\* Python's  x or y  on strings
OrElse(x, y) == IF x # << >> THEN x ELSE y

\* the five replace calls both front ends share
SubstituteCommon(pattern, metadata) ==
    LET s1 == StrReplace(pattern, PhTitle, OrElse(metadata.title, UnknownTitle))
        s2 == StrReplace(s1, PhArtist, OrElse(metadata.artist, UnknownArtist))
        s3 == StrReplace(s2, PhAlbum, OrElse(metadata.album, UnknownAlbum))
        s4 == StrReplace(s3, PhTrack, OrElse(metadata.track, << >>))
    IN  StrReplace(s4, PhYear, OrElse(metadata.year, << >>))

\* the same without the final strip
TidyNoStrip(s) == CollapseSeparators(clean_filename(s))

\* clean, collapse separator runs, strip('-_ ')
Tidy(s) == StripChars(CollapseSeparators(clean_filename(s)), SeparatorStripSet)

\* Worker.generate_new_name (pattern is self.rename_pattern)
GuiGenerateNewName(metadata, pattern) ==
    LET new_name == Tidy(SubstituteCommon(pattern, metadata))
    IN  IF new_name # << >> THEN new_name ELSE None

\* self.max_filename_length
max_filename_length == 255

\* InteractiveMusicRenamer.generate_new_name, for a given length cap
TermGenerateNewNameCap(metadata, pattern, cap) ==
    LET s == StrReplace(SubstituteCommon(pattern, metadata), PhGenre,
                        OrElse(metadata.genre, << >>))
        t == Tidy(s)
        new_name == IF Len(t) > cap THEN SubSeq(t, 1, cap) ELSE t
    IN  IF new_name # << >> THEN new_name ELSE None

\* InteractiveMusicRenamer.generate_new_name
TermGenerateNewName(metadata, pattern) ==
    TermGenerateNewNameCap(metadata, pattern, max_filename_length)

(***************************************************************************)
(* Paths and the file system.  A path is kept split the way os.path splits *)
(* it: dirname, base name without extension, extension with its dot.       *)
(* The file system maps each existing path to the file stored there.       *)
(***************************************************************************)
\* os.path.join(dirname, base + ext)
MkPath(dirname, base, ext) == [dir |-> dirname, base |-> base, ext |-> ext]

\* str.lower on the letters an extension of the model holds
LowerChar(c) == CASE c = "M" -> "m" [] c = "P" -> "p" [] OTHER -> c

\* ext.lower()
Lower(s) == [k \in 1..Len(s) |-> LowerChar(s[k])]

\* os.path.exists(path)
Exists(fsys, path) == path \in DOMAIN fsys

\* os.rename(old, new) when it succeeds (POSIX: an existing target is replaced)
OsRename(fsys, old, new) ==
    [p \in (DOMAIN fsys \ {old}) \cup {new} |-> IF p = new THEN fsys[old] ELSE fsys[p]]

\* os.rename raises for a source that is not there; any other call may raise too
\* (permission, cross-device, existing target on Windows): may is the caller's input
RenameSucceeds(fsys, old, may) == Exists(fsys, old) /\ may

(***************************************************************************)
(* Inputs of the model: the files on disk and their tags.                  *)
(***************************************************************************)
\* settings['rename_pattern'] / default_pattern: '%artist% - %title%'
DefaultPattern == PhArtist \o <<" ", "-", " ">> \o PhTitle

TitleX == <<"X">>
ArtistY == <<"Y">>
\* a title that ends like a conflict suffix
TitleX1 == <<"X", "_", "1">>

\* the tags a listed file may carry
TagChoices ==
    { [readable |-> TRUE, title |-> TitleX, artist |-> ArtistY],
      [readable |-> TRUE, title |-> TitleX1, artist |-> ArtistY],
      [readable |-> FALSE, title |-> TitleX, artist |-> ArtistY] }

\* 'Y - X', the name the default pattern gives the tags (X, Y)
NameN == <<"Y", " ", "-", " ", "X">>

\* how the listed files lie on disk: all in d1 as f1.mp3, f2.mp3, ... ("same");
\* the same with the last one already named 'Y - X.mp3' ("named"); or with an
\* upper-case extension, the first in d1 and the others in d2 ("spread")
Layouts == {"same", "named", "spread"}

DirOf(layout, k) == IF layout = "spread" /\ k > 1 THEN "d2" ELSE "d1"

ExtOf(layout) == IF layout = "spread" THEN <<".", "M", "P", "3">>
                 ELSE <<".", "m", "p", "3">>

\* the last listed file of layout "named" already carries the name 'Y - X'
BaseOf(layout, k, n) == IF layout = "named" /\ k = n THEN NameN
                        ELSE <<"f">> \o IntToStr(k)

ListedPath(layout, k, n) == MkPath(DirOf(layout, k), BaseOf(layout, k, n), ExtOf(layout))

\* files that may lie in d1 without being listed: 'Y - X.mp3', 'Y - X_1.mp3', ...
OtherPaths ==
    { MkPath("d1", IF k = 0 THEN NameN ELSE WithCounter(NameN, k), <<".", "m", "p", "3">>) :
        k \in 0..MaxSuffix }

(***************************************************************************)
(* extract_metadata, reduced to what the batch reads: a file that mutagen   *)
(* cannot read raises inside the try block and leaves every field ''.       *)
(***************************************************************************)
EmptyTags == [readable |-> TRUE, title |-> << >>, artist |-> << >>]

\* Worker.extract_metadata
GuiExtractMetadata(fsys, tags, file_path) ==
    LET t == IF Exists(fsys, file_path) /\ tags[fsys[file_path]].readable
             THEN tags[fsys[file_path]] ELSE EmptyTags
    IN  [title |-> Strip(t.title), artist |-> Strip(t.artist), album |-> << >>,
         track |-> << >>, year |-> << >>]

\* InteractiveMusicRenamer.extract_metadata
TermExtractMetadata(fsys, tags, file_path) ==
    LET t == IF Exists(fsys, file_path) /\ tags[fsys[file_path]].readable
             THEN tags[fsys[file_path]] ELSE EmptyTags
    IN  [title |-> Strip(t.title), artist |-> Strip(t.artist), album |-> << >>,
         track |-> << >>, year |-> << >>, genre |-> << >>]

\* the patterns a batch of the model runs with
Patterns == {DefaultPattern}

\* the names the generators give, under those patterns, to the records the
\* extractors return for the tags of the model, computed once
GuiNameTable ==
    [pattern \in Patterns,
     m \in {[title |-> Strip(t.title), artist |-> Strip(t.artist), album |-> << >>,
             track |-> << >>, year |-> << >>] : t \in TagChoices \cup {EmptyTags}} |->
        GuiGenerateNewName(m, pattern)]

TermNameTable ==
    [pattern \in Patterns,
     m \in {[title |-> Strip(t.title), artist |-> Strip(t.artist), album |-> << >>,
             track |-> << >>, year |-> << >>, genre |-> << >>] :
                t \in TagChoices \cup {EmptyTags}} |->
        TermGenerateNewName(m, pattern)]

\* self.generate_new_name(metadata)
GuiNewName(metadata, pattern) == GuiNameTable[pattern, metadata]

\* self.generate_new_name(metadata, pattern)
TermNewName(metadata, pattern) == TermNameTable[pattern, metadata]

(***************************************************************************)
(* Conflict resolution.                                                    *)
(***************************************************************************)
RECURSIVE ProbeLoop(_, _, _, _, _, _)
\* counter = 1; while os.path.exists(new_path): new_path = name_counter; counter += 1
ProbeLoop(fsys, dirname, new_name, ext, new_path, counter) ==
    IF Exists(fsys, new_path)
    THEN ProbeLoop(fsys, dirname, new_name, ext,
                   MkPath(dirname, WithCounter(new_name, counter), ext), counter + 1)
    ELSE new_path

\* a probe that tries "_1" only
FreePathOnce(fsys, dirname, new_name, ext) ==
    IF Exists(fsys, MkPath(dirname, new_name, ext))
    THEN MkPath(dirname, WithCounter(new_name, 1), ext)
    ELSE MkPath(dirname, new_name, ext)

\* no probe at all: the plain destination, taken or not
FreePathNoProbe(fsys, dirname, new_name, ext) == MkPath(dirname, new_name, ext)

\* the probe of process_file and of the terminal's rename_file
FreePath(fsys, dirname, new_name, ext) ==
    ProbeLoop(fsys, dirname, new_name, ext, MkPath(dirname, new_name, ext), 1)

RECURSIVE ReprobeLoop(_, _, _)
\* Worker.run: while os.path.exists(f"{base}_{counter}{ext}"): counter += 1
ReprobeLoop(fsys, path, counter) ==
    IF Exists(fsys, MkPath(path.dir, WithCounter(path.base, counter), path.ext))
    THEN ReprobeLoop(fsys, path, counter + 1)
    ELSE MkPath(path.dir, WithCounter(path.base, counter), path.ext)

\* file_info['new_path'] = None
NoPath == MkPath("", << >>, << >>)

\* Worker.process_file, without its two signals: the file_info it returns
process_file(fsys, tags, pattern, action, file_path) ==
    LET extension == Lower(file_path.ext)
        metadata == GuiExtractMetadata(fsys, tags, file_path)
        new_name == IF metadata.title # << >> \/ metadata.artist # << >>
                    THEN GuiNewName(metadata, pattern) ELSE None
        plain == MkPath(file_path.dir, new_name, extension)
        new_path == IF ~Truthy(new_name) THEN NoPath
                    ELSE IF action = "suffix"
                         THEN FreePath(fsys, file_path.dir, new_name, extension)
                         ELSE plain
    IN  [original_path |-> file_path, extension |-> extension,
         new_name |-> new_name, new_path |-> new_path, metadata |-> metadata]

(***************************************************************************)
(* State.                                                                  *)
(***************************************************************************)
VARIABLES
    frontend,         \* "gui": Worker/MusicRenamer; "terminal": InteractiveMusicRenamer
    files,            \* Worker.files / the files argument of process_files
    rename_pattern,   \* Worker.rename_pattern / pattern
    dry_run,          \* Worker.dry_run / dry_run
    conflict_action,  \* Worker.conflict_action (the terminal always suffixes)
    running,          \* Worker.running
    fs,               \* the file system: path -> file stored there
    tags,             \* file -> its tags
    pc,               \* position of the batch: "head", "body", "done"
    idx,              \* 1-based index of the loop of run / process_files
    success_count,
    fail_count,
    events,           \* the signals emitted so far, in order
    fs0,              \* history: the file system before the first batch
    probed,           \* history: the file system the last conflict resolution probed
    started,          \* history: indices whose loop body was entered, in order
    plan,             \* history: one result per finished file, in order
    stoppedAt,        \* history: << >>, or <<k, m>>: stop() was called with k files
                      \* started and m of them finished
    preview,          \* history: the plan of the finished dry run before this batch
    batch,            \* history: 1, or 2 for the commit batch after a preview
    call,             \* a single call of one function of the program: what is
                      \* called and with which arguments
    result,           \* what that call returned
    app               \* MusicRenamer, the main window: its fields, widgets and buttons

vars == <<frontend, files, rename_pattern, dry_run, conflict_action, running, fs, tags,
          pc, idx, success_count, fail_count, events, fs0, probed, started, plan,
          stoppedAt, preview, batch, call, result, app>>

config == <<frontend, files, rename_pattern, conflict_action, tags, fs0>>

\* the single call under study; the batches leave it alone
pure == <<call, result>>

\* no call, no result yet
Nothing == [op |-> "none"]

\* a worker or a terminal batch on its own, without the main window
NoWindow == [window |-> "none"]

\* progress_updated.emit(index, message)
Progress(index, kind) == [sig |-> "progress_updated", index |-> index, kind |-> kind]

\* task_completed.emit(success_count, fail_count)
Completed(s, f) == [sig |-> "task_completed", success |-> s, fail |-> f]

\* the file stored at a path
FileAt(fsys, path) == IF Exists(fsys, path) THEN fsys[path] ELSE <<"none", 0>>

Init ==
    \E n \in 1..MaxFiles, layout \in Layouts, others \in SUBSET OtherPaths :
      \E t \in [1..n -> TagChoices] :
        /\ others \cap {ListedPath(layout, k, n) : k \in 1..n} = {}
        /\ frontend \in {"gui", "terminal"}
        /\ files = [k \in 1..n |-> ListedPath(layout, k, n)]
        /\ rename_pattern \in Patterns
        /\ dry_run \in BOOLEAN
        /\ conflict_action \in (IF frontend = "gui" THEN {"overwrite", "skip", "suffix"}
                                ELSE {"suffix"})
        /\ running = TRUE
        /\ fs = [p \in {ListedPath(layout, k, n) : k \in 1..n} \cup others |->
                   IF p \in others THEN <<"other", Len(p.base)>>
                   ELSE <<"listed", CHOOSE k \in 1..n : ListedPath(layout, k, n) = p>>]
        /\ tags = [f \in {<<"listed", k>> : k \in 1..n}
                        \cup {<<"other", Len(p.base)>> : p \in others} |->
                     IF f[1] = "listed" THEN t[f[2]] ELSE EmptyTags]
        /\ pc = "head"
        /\ idx = 1
        /\ success_count = 0
        /\ fail_count = 0
        /\ events = << >>
        /\ fs0 = fs
        /\ probed = fs
        /\ started = << >>
        /\ plan = << >>
        /\ stoppedAt = << >>
        /\ preview = << >>
        /\ batch = 1
        /\ call = Nothing
        /\ result = Nothing
        /\ app = NoWindow

(***************************************************************************)
(* Worker.run (GUI).                                                       *)
(***************************************************************************)
\* a loop head that never looks at the flag
BreakNever(run) == FALSE

\* if not self.running: break
BreakRequested(run) == ~run

\* for i, file_path in enumerate(self.files): if not self.running: break
GuiLoopHead ==
    /\ frontend = "gui"
    /\ pc = "head"
    /\ IF idx > Len(files) \/ BreakRequested(running)
       THEN /\ pc' = "done"
            /\ UNCHANGED started
       ELSE /\ pc' = "body"
            /\ started' = Append(started, idx)
    /\ UNCHANGED <<config, pure, app, dry_run, running, fs, idx, success_count, fail_count, events,
                   probed, plan, stoppedAt, preview, batch>>

\* a run that renames on a dry run as well
GuiCommitsAlways(dry) == TRUE

\* if not self.dry_run
GuiCommits(dry) == ~dry

\* a skip branch that does not look at the disk
GuiSkipsUnprobed(fsys, info, action) == action = "skip"

\* a run without the skip branch: an existing destination is renamed onto
GuiSkipsNever(fsys, info, action) == FALSE

\* the skip branch of run: emit and continue
GuiSkips(fsys, info, action) == Exists(fsys, info.new_path) /\ action = "skip"

\* the path run hands to rename_file
GuiTarget(fsys, info, action) ==
    IF Exists(fsys, info.new_path) /\ action = "suffix"
    THEN ReprobeLoop(fsys, info.new_path, 1)
    ELSE info.new_path

\* success_count += 1 is reached whenever new_name is set and run did not continue
GuiCountsSuccess(nameOk, skipped, renamed) == nameOk /\ ~skipped

\* the else branch of "if file_info.get('new_name')": fail_count += 1
GuiCountsFail(nameOk, skipped, renamed) == ~nameOk

\* a skip that leaves the loop (break) instead of going on (continue)
GuiNextIndexBreak(i, n, skipped) == IF skipped THEN n + 1 ELSE i + 1

\* the statement that ends one pass of the loop of run: continue after a skip
\* (the next file), else the end of the body (the next file as well)
GuiNextIndex(i, n, skipped) == i + 1

\* a process_file that emits nothing
NoSignals(current) == << >>

\* what process_file emits before it returns: progress_updated with the index of
\* the file (metadata_found carries the file_info that plan records)
ProcessFileSignals(current) == <<Progress(current, "Processing")>>

\* one pass through the try block of run: process_file, then the rest of the body
GuiRunBody ==
    /\ frontend = "gui"
    /\ pc = "body"
    /\ \E may \in BOOLEAN :
        LET info == process_file(fs, tags, rename_pattern, conflict_action, files[idx])
            nameOk == Truthy(info.new_name)
            commits == nameOk /\ GuiCommits(dry_run)
            skipped == commits /\ GuiSkips(fs, info, conflict_action)
            target == IF commits THEN GuiTarget(fs, info, conflict_action)
                      ELSE info.new_path
            attempted == commits /\ ~skipped
            renamed == attempted /\ RenameSucceeds(fs, files[idx], may)
            succ == GuiCountsSuccess(nameOk, skipped, renamed)
            failc == GuiCountsFail(nameOk, skipped, renamed)
            plain == MkPath(files[idx].dir, info.new_name, info.extension)
        IN  /\ fs' = IF renamed THEN OsRename(fs, files[idx], target) ELSE fs
            /\ success_count' = IF succ THEN success_count + 1 ELSE success_count
            /\ fail_count' = IF failc THEN fail_count + 1 ELSE fail_count
            /\ events' = IF skipped
                         THEN events \o ProcessFileSignals(idx) \o <<Progress(idx, "skip")>>
                         ELSE events \o ProcessFileSignals(idx) \o <<
                                          Completed(success_count', fail_count')>>
            /\ plan' = Append(plan,
                  [index |-> idx,
                   file |-> FileAt(fs, files[idx]),
                   new_name |-> info.new_name,
                   new_path |-> info.new_path,
                   wanted |-> IF nameOk THEN plain ELSE NoPath,
                   existed |-> nameOk /\ Exists(fs, plain),
                   dest |-> target,
                   outcome |-> IF ~nameOk THEN "Unchanged"
                               ELSE IF skipped THEN "Skipped"
                               ELSE IF ~attempted \/ renamed THEN "Renamed"
                               ELSE "Failed",
                   counted |-> IF succ THEN "success" ELSE IF failc THEN "fail" ELSE "none"])
            /\ idx' = GuiNextIndex(idx, Len(files), skipped)
    /\ probed' = fs
    /\ pc' = "head"
    /\ UNCHANGED <<config, pure, app, dry_run, running, started, stoppedAt, preview, batch>>

\* Worker.stop, reached from MusicRenamer.stop_processing while the worker isRunning()
Stop ==
    /\ frontend = "gui"
    /\ pc \in {"head", "body"}
    /\ running
    /\ running' = FALSE
    /\ stoppedAt' = <<Len(started), Len(plan)>>
    /\ UNCHANGED <<config, pure, app, dry_run, fs, pc, idx, success_count, fail_count,
                   events, probed, started, plan, preview, batch>>

(***************************************************************************)
(* InteractiveMusicRenamer.process_files (terminal).                       *)
(***************************************************************************)
\* if dry_run: ... return True, before os.rename
TermCommits(dry) == ~dry

\* rename_file returns True on a dry run and after os.rename, False from the except
TermCountsSuccess(dry, renamed) == dry \/ renamed

\* the loop of process_files goes on to the next file after every outcome
TermNextIndex(i, n, nameOk, renamed) == i + 1

\* one iteration of the loop of process_files
TermIterate ==
    /\ frontend = "terminal"
    /\ pc = "head"
    /\ idx <= Len(files)
    /\ \E may \in BOOLEAN :
        LET file_path == files[idx]
            metadata == TermExtractMetadata(fs, tags, file_path)
            new_name == TermNewName(metadata, rename_pattern)
            nameOk == Truthy(new_name)
            plain == MkPath(file_path.dir, new_name, file_path.ext)
            new_path == IF nameOk
                        THEN FreePath(fs, file_path.dir, new_name, file_path.ext)
                        ELSE NoPath
            attempted == nameOk /\ TermCommits(dry_run)
            renamed == attempted /\ RenameSucceeds(fs, file_path, may)
            succ == nameOk /\ TermCountsSuccess(dry_run, renamed)
        IN  /\ fs' = IF renamed THEN OsRename(fs, file_path, new_path) ELSE fs
            /\ success_count' = IF succ THEN success_count + 1 ELSE success_count
            /\ fail_count' = IF succ THEN fail_count ELSE fail_count + 1
            /\ plan' = Append(plan,
                  [index |-> idx,
                   file |-> FileAt(fs, file_path),
                   new_name |-> new_name,
                   new_path |-> new_path,
                   wanted |-> IF nameOk THEN plain ELSE NoPath,
                   existed |-> nameOk /\ Exists(fs, plain),
                   dest |-> new_path,
                   outcome |-> IF ~nameOk THEN "Unchanged"
                               ELSE IF ~attempted \/ renamed THEN "Renamed"
                               ELSE "Failed",
                   counted |-> IF succ THEN "success" ELSE "fail"])
            /\ idx' = TermNextIndex(idx, Len(files), nameOk, renamed)
    /\ probed' = fs
    /\ started' = Append(started, idx)
    /\ UNCHANGED <<config, pure, app, dry_run, running, pc, events, stoppedAt, preview, batch>>

\* return success_count, fail_count
TermReturn ==
    /\ frontend = "terminal"
    /\ pc = "head"
    /\ idx > Len(files)
    /\ pc' = "done"
    /\ UNCHANGED <<config, pure, app, dry_run, running, fs, idx, success_count, fail_count, events,
                   probed, started, plan, stoppedAt, preview, batch>>

(***************************************************************************)
(* The commit batch a user starts after a finished preview of the same     *)
(* list: MusicRenamer.start_processing(False) builds a new Worker; the     *)
(* terminal menu calls process_files again with dry_run off.               *)
(***************************************************************************)
StartProcessing ==
    /\ pc = "done"
    /\ batch = 1
    /\ dry_run
    /\ stoppedAt = << >>
    /\ batch' = 2
    /\ preview' = plan
    /\ dry_run' = FALSE
    /\ running' = TRUE
    /\ pc' = "head"
    /\ idx' = 1
    /\ success_count' = 0
    /\ fail_count' = 0
    /\ events' = << >>
    /\ started' = << >>
    /\ plan' = << >>
    /\ UNCHANGED <<config, pure, app, fs, probed, stoppedAt>>

\* the batches without cancellation
Next ==
    \/ GuiLoopHead
    \/ GuiRunBody
    \/ TermIterate
    \/ TermReturn
    \/ StartProcessing

Spec == Init /\ [][Next]_vars

\* the GUI worker with the stop button, on lists that lie in one directory
InitStop == Init /\ frontend = "gui" /\ \A k \in 1..Len(files) : files[k].dir = "d1"

NextStop ==
    \/ GuiLoopHead
    \/ GuiRunBody
    \/ Stop

SpecStop == InitStop /\ [][NextStop]_vars

(***************************************************************************)
(* Single calls of extract_metadata, generate_new_name and clean_filename, *)
(* on arguments drawn from bounded sets.                                   *)
(***************************************************************************)
\* longest title and artist handed to generate_new_name
MaxFieldLen == 2
\* longest string handed to clean_filename
MaxNameLen == 3

\* all strings over an alphabet up to a length
Strings(alphabet, n) == UNION {[1..k -> alphabet] : k \in 0..n}

\* an ordinary letter, the separators, a forbidden character and a blank
FieldAlphabet == {"X", "-", "_", "/", " "}

\* an ordinary letter, forbidden characters, control characters, a line
\* separator and two kinds of whitespace
CleanAlphabet == {"a", "/", ":", "\t", "NUL", "LS", " ", "U+3000"}

\* '%album%/%title%': a forbidden character in the template itself
AlbumPattern == PhAlbum \o <<"/">> \o PhTitle

\* '%track%.%year%%genre% %title%'
OptionalPattern == PhTrack \o <<".">> \o PhYear \o PhGenre \o <<" ">> \o PhTitle

GenPatterns == {DefaultPattern, AlbumPattern, OptionalPattern}

\* album, track, year and genre: all absent, or all present with characters
\* that need sanitizing
OptionalChoices ==
    { [album |-> << >>, track |-> << >>, year |-> << >>, genre |-> << >>],
      [album |-> <<"A", ":", "\\">>, track |-> <<"7", "\t">>,
       year |-> <<"1", "LS">>, genre |-> <<"G", "NUL">>] }

\* a title with an ideographic space (U+3000) before a trailing hyphen
IdeographicTitle == <<"X", "U+3000", "-">>

\* titles beyond the alphabet: the token '%artist%' and the ideographic space
SpecialTitles == {PhArtist, IdeographicTitle}

\* the metadata records handed to generate_new_name (the GUI's record has no
\* 'genre' key and its generator reads none)
GenRecords ==
    { [title |-> t, artist |-> a, album |-> o.album, track |-> o.track,
       year |-> o.year, genre |-> o.genre] :
        t \in Strings(FieldAlphabet, MaxFieldLen) \cup SpecialTitles,
        a \in Strings(FieldAlphabet, MaxFieldLen),
        o \in OptionalChoices }

GenCalls ==
    { [op |-> "generate_new_name", metadata |-> m, pattern |-> p] :
        m \in GenRecords, p \in GenPatterns }

CleanCalls ==
    { [op |-> "clean_filename", name |-> s] : s \in Strings(CleanAlphabet, MaxNameLen) }

\* os.path.splitext(file_path)[1].lower() in ('.mp3', '.m4a')
NativeExts == {<<".", "m", "p", "3">>, <<".", "m", "4", "a">>}

\* what mutagen makes of a file: File() raises, returns None or returns an
\* audio object; the values of the common tag view; whether the object has
\* native tags; the values they hold; and which statement of the
\* format-specific block raises (0: none, 1: the title line, 2: the artist line)
Audios ==
    { [ext |-> e, file |-> f, title |-> t, artist |-> a, native |-> n,
       raisesAt |-> r, nativeTitle |-> <<"Z">>, nativeArtist |-> <<"W", " ">>] :
        e \in {<<".", "m", "p", "3">>, <<".", "f", "l", "a", "c">>},
        f \in {"raises", "none", "ok"},
        t \in {<< >>, <<" ", "X", " ">>},
        a \in {<< >>, <<"Y">>},
        n \in BOOLEAN,
        r \in 0..2 }

ExtractCalls == { [op |-> "extract_metadata", audio |-> x] : x \in Audios }

\* the keys of the metadata dict of each front end
GuiFields == {"title", "artist", "album", "track", "year"}
TermFields == GuiFields \cup {"genre"}

\* a record that resets its fields when the tag read fails
AfterExceptReset(empty, stored) == empty

\* the except clause of extract_metadata reports the error and goes on: the
\* dict keeps what was stored before the exception
AfterExcept(empty, stored) == stored

\* the statements of extract_metadata that may raise lie inside its try block
TryBlock == {"File", "override"}

\* extract_metadata of either front end, on the keys of its dict
ExtractMetadata(fields, audio) ==
    LET empty == [k \in fields |-> << >>]
        common == [empty EXCEPT !["title"] = audio.title, !["artist"] = audio.artist]
        overrides == audio.file = "ok" /\ audio.ext \in NativeExts /\ audio.native
        failsAt == IF audio.file = "raises" THEN "File"
                   ELSE IF overrides /\ audio.raisesAt > 0 THEN "override"
                   ELSE "none"
        title1 == [common EXCEPT !["title"] = audio.nativeTitle]
        both == [title1 EXCEPT !["artist"] = audio.nativeArtist]
        stored == IF audio.file # "ok" THEN empty
                  ELSE IF ~overrides THEN common
                  ELSE IF audio.raisesAt = 1 THEN common
                  ELSE IF audio.raisesAt = 2 THEN title1
                  ELSE both
        metadata == IF failsAt = "none" THEN stored ELSE AfterExcept(empty, stored)
    IN  [raised |-> failsAt \notin TryBlock \cup {"none"},
         metadata |-> [k \in fields |-> Strip(metadata[k])]]

Calls == GenCalls \cup CleanCalls \cup ExtractCalls

\* no batch: only the call
InitPure ==
    /\ call \in Calls
    /\ result = Nothing
    /\ frontend \in {"gui", "terminal"}
    /\ files = << >>
    /\ rename_pattern = DefaultPattern
    /\ dry_run = TRUE
    /\ conflict_action = "suffix"
    /\ running = FALSE
    /\ fs = << >>
    /\ tags = << >>
    /\ pc = "done"
    /\ idx = 1
    /\ success_count = 0
    /\ fail_count = 0
    /\ events = << >>
    /\ fs0 = << >>
    /\ probed = << >>
    /\ started = << >>
    /\ plan = << >>
    /\ stoppedAt = << >>
    /\ preview = << >>
    /\ batch = 1
    /\ app = NoWindow

batchVars == <<frontend, files, rename_pattern, dry_run, conflict_action, running, fs,
               tags, pc, idx, success_count, fail_count, events, fs0, probed, started,
               plan, stoppedAt, preview, batch, app>>

\* self.generate_new_name(...) of the front end
CallGenerate ==
    /\ call.op = "generate_new_name"
    /\ result = Nothing
    /\ result' = [op |-> call.op,
                  value |-> IF frontend = "gui"
                            THEN GuiGenerateNewName(call.metadata, call.pattern)
                            ELSE TermGenerateNewName(call.metadata, call.pattern)]
    /\ UNCHANGED <<batchVars, call>>

\* self.clean_filename(name), the same in both front ends
CallClean ==
    /\ call.op = "clean_filename"
    /\ result = Nothing
    /\ result' = [op |-> call.op, value |-> clean_filename(call.name)]
    /\ UNCHANGED <<batchVars, call>>

\* self.extract_metadata(file_path) of the front end
CallExtract ==
    /\ call.op = "extract_metadata"
    /\ result = Nothing
    /\ result' = [op |-> call.op,
                  value |-> ExtractMetadata(IF frontend = "gui" THEN GuiFields
                                            ELSE TermFields, call.audio)]
    /\ UNCHANGED <<batchVars, call>>

NextPure ==
    \/ CallGenerate
    \/ CallClean
    \/ CallExtract

SpecPure == InitPure /\ [][NextPure]_vars

(***************************************************************************)
(* MusicRenamer, the main window.  The handlers of its buttons run on the   *)
(* GUI thread, one at a time and each to its end; the steps of the worker   *)
(* thread interleave with them.                                            *)
(***************************************************************************)
\* most files a scan finds
MaxScanned == 2
\* most workers the window starts
MaxWorkers == 2

\* the directory dir_path shows at first (it holds no music) and the
\* directory of the music files
HomeDir == "home"
MusicDir == "d1"

\* The widgets of the settings tab (the template box, the three radio buttons,
\* the two check boxes) are never disabled and only the user writes them, at
\* any time; the handlers that read them take their contents as an input.
\* what pattern_combo may hold when it is read: the default template, or nothing
PatternTexts == {DefaultPattern, << >>}

\* the checked one of conflict_overwrite, conflict_skip, conflict_suffix
ConflictRadios == {"overwrite", "skip", "suffix"}

\* buttons that stay clickable while a worker runs
ButtonsLeftEnabled(enabled, music_files) ==
    [browse |-> TRUE, scan |-> TRUE,
     preview |-> music_files # << >>, rename |-> music_files # << >>,
     stop |-> ~enabled]

\* MusicRenamer.set_buttons_enabled
set_buttons_enabled(enabled, music_files) ==
    [browse |-> enabled, scan |-> enabled,
     preview |-> enabled /\ music_files # << >>,
     rename |-> enabled /\ music_files # << >>,
     stop |-> ~enabled]

\* MusicRenamer.__init__ and init_ui: the settings dict (the keys the handlers
\* below read), the directory box, the buttons, no worker, no files
MainWindow ==
    [window |-> "open",
     settings |-> [dry_run |-> FALSE, auto_rename |-> FALSE, last_directory |-> HomeDir],
     dir_path |-> HomeDir,
     buttons |-> [browse |-> TRUE, scan |-> TRUE, preview |-> FALSE,
                  rename |-> FALSE, stop |-> FALSE],
     music_files |-> << >>,
     workers |-> 0,
     finished |-> "none",
     wait |-> "none"]

\* the window on a disk with MaxScanned tagged files in MusicDir; no worker yet
InitGui ==
    /\ frontend = "gui"
    /\ files = << >>
    /\ rename_pattern = DefaultPattern
    /\ dry_run = FALSE
    /\ conflict_action = "suffix"
    /\ running = FALSE
    /\ fs = [p \in {ListedPath("same", k, MaxScanned) : k \in 1..MaxScanned} |->
               <<"listed", CHOOSE k \in 1..MaxScanned :
                               ListedPath("same", k, MaxScanned) = p>>]
    /\ tags = [f \in {<<"listed", k>> : k \in 1..MaxScanned} |->
                 [readable |-> TRUE, title |-> TitleX, artist |-> ArtistY]]
    /\ pc = "idle"
    /\ idx = 1
    /\ success_count = 0
    /\ fail_count = 0
    /\ events = << >>
    /\ fs0 = fs
    /\ probed = fs
    /\ started = << >>
    /\ plan = << >>
    /\ stoppedAt = << >>
    /\ preview = << >>
    /\ batch = 1
    /\ call = Nothing
    /\ result = Nothing
    /\ app = MainWindow

\* the fields of the worker object and the progress of its thread
workerVars == <<files, rename_pattern, dry_run, conflict_action, running, pc, idx,
                success_count, fail_count, events, fs0, probed, started, plan,
                stoppedAt>>

\* what no handler of the window touches
windowFixed == <<frontend, tags, fs, preview, batch, pure>>

\* self.worker.isRunning(): the thread has been started and run has not returned
isRunning == pc \in {"head", "body"}

\* os.walk(directory): the paths of the files in the directory, in the order
\* the directory lists them; the model lists the files by their numbers, so a
\* renamed file keeps its place
WalkOrder(fsys, directory) ==
    LET S == {p \in DOMAIN fsys : p.dir = directory}
    IN  [i \in 1..Cardinality(S) |->
            CHOOSE p \in S : Cardinality({q \in S : fsys[q][2] < fsys[p][2]}) = i - 1]

\* MusicRenamer.start_processing(dry_run), called with the window as the
\* handler has left it so far, the text of pattern_combo and the checked radio
\* button: returns at once without files or without a template; else disables
\* the buttons, builds the Worker from the list, the template, the radio
\* button and settings['dry_run'], and starts it
start_processing(window, dry, pattern_combo, conflict_radio) ==
    IF window.music_files = << >> \/ Strip(pattern_combo) = << >>
    THEN /\ app' = window
         /\ UNCHANGED workerVars
    ELSE /\ app' = [window EXCEPT
                      !.buttons = set_buttons_enabled(FALSE, window.music_files),
                      !.workers = @ + 1,
                      !.finished = "none"]
         /\ files' = window.music_files
         /\ rename_pattern' = Strip(pattern_combo)
         /\ dry_run' = (dry \/ window.settings.dry_run)
         /\ conflict_action' = conflict_radio
         /\ running' = TRUE
         /\ pc' = "head"
         /\ idx' = 1
         /\ success_count' = 0
         /\ fail_count' = 0
         /\ events' = << >>
         /\ fs0' = fs
         /\ probed' = fs
         /\ started' = << >>
         /\ plan' = << >>
         /\ stoppedAt' = << >>

\* browse_button: MusicRenamer.browse_directory with a directory chosen
BrowseDirectory ==
    /\ app.window = "open"
    /\ app.buttons.browse
    /\ \E directory \in {HomeDir, MusicDir} :
        /\ directory # app.dir_path
        /\ app' = [app EXCEPT !.dir_path = directory,
                              !.settings.last_directory = directory]
    /\ UNCHANGED <<workerVars, windowFixed>>

\* scan_button: MusicRenamer.scan_files.  self.music_files is bound to a new
\* list, which os.walk fills; without files preview and rename are disabled,
\* with files they are enabled and, under auto_rename without dry_run, the
\* handler goes on into start_processing(False)
ScanFiles ==
    /\ app.window = "open"
    /\ app.buttons.scan
    /\ app.workers < MaxWorkers
    /\ \E pattern_combo \in PatternTexts, conflict_radio \in ConflictRadios :
        LET found == WalkOrder(fs, app.dir_path)
            scanned == [app EXCEPT !.music_files = found,
                                   !.buttons.preview = found # << >>,
                                   !.buttons.rename = found # << >>]
        IN  IF found # << >> /\ app.settings.auto_rename /\ ~app.settings.dry_run
            THEN start_processing(scanned, FALSE, pattern_combo, conflict_radio)
            ELSE /\ app' = scanned
                 /\ UNCHANGED workerVars
    /\ UNCHANGED windowFixed

\* preview_button: partial(self.start_processing, True)
ClickPreview ==
    /\ app.window = "open"
    /\ app.buttons.preview
    /\ app.workers < MaxWorkers
    /\ \E pattern_combo \in PatternTexts, conflict_radio \in ConflictRadios :
        start_processing(app, TRUE, pattern_combo, conflict_radio)
    /\ UNCHANGED windowFixed

\* rename_button: partial(self.start_processing, False)
ClickRename ==
    /\ app.window = "open"
    /\ app.buttons.rename
    /\ app.workers < MaxWorkers
    /\ \E pattern_combo \in PatternTexts, conflict_radio \in ConflictRadios :
        start_processing(app, FALSE, pattern_combo, conflict_radio)
    /\ UNCHANGED windowFixed

\* stop_button: MusicRenamer.stop_processing, with a worker that isRunning()
ClickStop ==
    /\ app.window = "open"
    /\ app.buttons.stop
    /\ Stop

\* save_settings_button (never disabled): MusicRenamer.save_settings copies
\* the check boxes, as the user has set them by now, into self.settings and
\* nowhere else
SaveSettings ==
    /\ app.window = "open"
    /\ \E dry_run_check \in BOOLEAN, auto_rename_check \in BOOLEAN :
        app' = [app EXCEPT !.settings.dry_run = dry_run_check,
                           !.settings.auto_rename = auto_rename_check]
    /\ app' # app
    /\ UNCHANGED <<workerVars, windowFixed>>

\* the worker thread at the head of its loop, while the process lives
WorkerLoopHead ==
    /\ app.window # "closed"
    /\ GuiLoopHead

\* the worker thread in the body of its loop, while the process lives
WorkerRunBody ==
    /\ app.window # "closed"
    /\ GuiRunBody

\* the finished signal of the thread, delivered to MusicRenamer.worker_finished
\* on the GUI thread: set_buttons_enabled(True)
WorkerFinished ==
    /\ app.window = "open"
    /\ pc = "done"
    /\ app.finished = "none"
    /\ app' = [app EXCEPT !.buttons = set_buttons_enabled(TRUE, app.music_files),
                          !.finished = "delivered"]
    /\ UNCHANGED <<workerVars, windowFixed>>

\* MusicRenamer.closeEvent up to its wait: with a worker that isRunning(),
\* worker.stop() and then the GUI thread blocks in worker.wait(2000); without
\* one, event.accept() at once
CloseEvent ==
    /\ app.window = "open"
    /\ IF isRunning
       THEN /\ app' = [app EXCEPT !.window = "waiting"]
            /\ running' = FALSE
            /\ stoppedAt' = IF running THEN <<Len(started), Len(plan)>> ELSE stoppedAt
       ELSE /\ app' = [app EXCEPT !.window = "closed"]
            /\ UNCHANGED <<running, stoppedAt>>
    /\ UNCHANGED <<files, rename_pattern, dry_run, conflict_action, pc, idx,
                   success_count, fail_count, events, fs0, probed, started, plan,
                   windowFixed>>

\* a closeEvent that accepts without waiting for the worker
WaitSkipped(finished, expired) == TRUE

\* worker.wait(2000) returns when the thread has finished or when the 2000 ms
\* have passed, whichever comes first
WaitReturns(finished, expired) == finished \/ expired

\* the rest of closeEvent: wait returns and event.accept() closes the window,
\* which ends the application
CloseAccept ==
    /\ app.window = "waiting"
    /\ \E expired \in BOOLEAN :
        /\ WaitReturns(pc = "done", expired)
        /\ app' = [app EXCEPT !.window = "closed",
                              !.wait = IF pc = "done" THEN "joined"
                                       ELSE IF expired THEN "timeout"
                                       ELSE "none"]
    /\ UNCHANGED <<workerVars, windowFixed>>

NextGui ==
    \/ BrowseDirectory
    \/ ScanFiles
    \/ ClickPreview
    \/ ClickRename
    \/ ClickStop
    \/ SaveSettings
    \/ WorkerLoopHead
    \/ WorkerRunBody
    \/ WorkerFinished
    \/ CloseEvent
    \/ CloseAccept

SpecGui == InitGui /\ [][NextGui]_vars

(***************************************************************************)
(* Properties.                                                             *)
(***************************************************************************)
\* the path with "_k" put before the extension; k = 0 is the path itself
Suffixed(path, k) ==
    IF k = 0 THEN path ELSE MkPath(path.dir, WithCounter(path.base, k), path.ext)

\* the result of the file finished last
Last == plan[Len(plan)]

\* how many finished files have an outcome of the given set
CountOutcome(set) == Cardinality({j \in 1..Len(plan) : plan[j].outcome \in set})

NoRenameFailed == \A j \in 1..Len(plan) : plan[j].outcome # "Failed"

\* C1: during and after a dry-run batch the file system (which paths exist and
\* which file each holds) is the one before the batch, in both front ends.
C1_DryRunLeavesDiskUnchanged == dry_run => fs = fs0

\* a finished dry run of the whole list that recorded a would-be rename
C1_Witness ==
    /\ dry_run
    /\ pc = "done"
    /\ Len(plan) = Len(files)
    /\ \E j \in 1..Len(plan) :
          plan[j].outcome = "Renamed" /\ ~Exists(fs, plan[j].dest)

\* C2: after a dry run and then a commit run of the same list from the same file
\* system, every file sits at the destination the dry run recorded for it
\* (stated for the Suffix policy and for commit runs in which no rename failed).
C2_PreviewMatchesCommit ==
    (batch = 2 /\ pc = "done" /\ conflict_action = "suffix" /\ NoRenameFailed) =>
        \A j \in 1..Len(preview) :
            preview[j].outcome = "Renamed" =>
                FileAt(fs, preview[j].dest) = preview[j].file

\* C3: at the end of an uncancelled batch the success count is the number of
\* Renamed outcomes, the failure count the number of all other outcomes, and
\* together they count every file of the list.
C3_CountAccounting ==
    pc = "done" =>
        /\ success_count = CountOutcome({"Renamed"})
        /\ fail_count = CountOutcome({"Skipped", "Failed", "Unchanged"})
        /\ success_count + fail_count = Len(files)

\* C4: under the Skip policy a file whose destination exists is Skipped, the
\* file system is left as it was, and the file is counted as a failure, on a
\* dry run as in commit mode.
C4_SkipPolicy ==
    (plan # << >> /\ pc = "head" /\ conflict_action = "skip" /\ Last.existed) =>
        /\ Last.outcome = "Skipped"
        /\ fs = probed
        /\ Last.counted = "fail"

\* C5: a file whose rename failed is counted as a failure and not as a success,
\* the file system is left as it was, and the batch is back at the loop head.
C5_RenameFailureCounted ==
    (plan # << >> /\ pc = "head" /\ Last.outcome = "Failed") =>
        /\ Last.counted = "fail"
        /\ fs = probed
        /\ idx = Last.index + 1

\* a and b are the first two files of the list that generate the same name, in
\* the same directory and with the same extension, and neither N.ext nor
\* N_1.ext existed before the batch
C6_Case(a, b) ==
    /\ a < b
    /\ Truthy(plan[a].new_name)
    /\ plan[a].new_name = plan[b].new_name
    /\ files[a].dir = files[b].dir
    /\ files[a].ext = files[b].ext
    /\ \A k \in 1..(b - 1) : k # a => plan[k].new_name # plan[a].new_name
    /\ ~Exists(fs0, plan[a].wanted)
    /\ ~Exists(fs0, Suffixed(plan[a].wanted, 1))

\* the first of them is at N.ext, the second at N_1.ext
C6_Placed(a, b) ==
    /\ FileAt(fs, plan[a].wanted) = <<"listed", a>>
    /\ FileAt(fs, Suffixed(plan[a].wanted, 1)) = <<"listed", b>>

\* a commit batch under the Suffix policy that ran to its end without a failed rename
C6_Finished ==
    /\ pc = "done"
    /\ Len(plan) = Len(files)
    /\ batch = 1
    /\ ~dry_run
    /\ conflict_action = "suffix"
    /\ NoRenameFailed

\* C6 as claimed: whatever else the batch holds, the first of two files with
\* the same name N ends at N.ext and the second at N_1.ext.
C6_DuplicatesAsClaimed ==
    C6_Finished =>
        \A a, b \in 1..Len(plan) : C6_Case(a, b) => C6_Placed(a, b)

\* C6 (amended): the same, when no other file of the batch is renamed to N.ext
\* or N_1.ext.
C6_Duplicates ==
    C6_Finished =>
        \A a, b \in 1..Len(plan) :
            ( /\ C6_Case(a, b)
              /\ \A k \in 1..Len(plan) :
                    (k \notin {a, b} /\ plan[k].outcome = "Renamed") =>
                        plan[k].dest \notin {plan[a].wanted, Suffixed(plan[a].wanted, 1)} )
            => C6_Placed(a, b)

\* two files with the same tags, renamed to N.ext and N_1.ext in input order
C6_Witness ==
    /\ C6_Finished
    /\ Len(plan) >= 2
    /\ C6_Case(1, 2)
    /\ C6_Placed(1, 2)
    /\ FileAt(fs, files[1]) = <<"none", 0>>

\* the resolution of the last file ran under the Suffix policy
SuffixResolved ==
    /\ plan # << >>
    /\ pc = "head"
    /\ conflict_action = "suffix"
    /\ Truthy(Last.new_name)

\* C7: under the Suffix policy, if p, p_1, ..., p_(k-1) exist and p_k does not
\* (k >= 1), the resolved destination is p_k.
C7_SuffixProbing ==
    SuffixResolved =>
        \A k \in 1..(Cardinality(DOMAIN probed) + 1) :
            ( /\ \A j \in 0..(k - 1) : Exists(probed, Suffixed(Last.wanted, j))
              /\ ~Exists(probed, Suffixed(Last.wanted, k)) )
            => /\ Last.new_path = Suffixed(Last.wanted, k)
               /\ Last.dest = Suffixed(Last.wanted, k)

\* p and p_1 existed and the file was renamed to p_2
C7_Witness ==
    /\ SuffixResolved
    /\ Exists(probed, Last.wanted)
    /\ Exists(probed, Suffixed(Last.wanted, 1))
    /\ Last.dest = Suffixed(Last.wanted, 2)
    /\ ~dry_run
    /\ FileAt(fs, Suffixed(Last.wanted, 2)) = Last.file

\* C8: a destination that does not exist is used as it is under every policy:
\* no suffix is added and the file is not skipped.
C8_FreeDestination ==
    (plan # << >> /\ pc = "head" /\ Truthy(Last.new_name)
        /\ ~Exists(probed, Last.wanted)) =>
        /\ Last.new_path = Last.wanted
        /\ Last.dest = Last.wanted
        /\ Last.outcome # "Skipped"

\* a free destination under the Skip policy, and the file renamed to it
C8_Witness ==
    /\ plan # << >>
    /\ pc = "head"
    /\ conflict_action = "skip"
    /\ ~dry_run
    /\ ~Exists(probed, Last.wanted)
    /\ Last.outcome = "Renamed"
    /\ FileAt(fs, Last.wanted) = Last.file

\* C9: without cancellation every file of the list is processed exactly once
\* and in list order, whatever the outcomes.
C9_EveryFileOnceInOrder ==
    /\ Len(started) <= Len(files)
    /\ \A j \in 1..Len(started) : started[j] = j
    /\ Len(plan) <= Len(started)
    /\ \A j \in 1..Len(plan) : plan[j].index = j
    /\ pc = "done" => (Len(started) = Len(files) /\ Len(plan) = Len(files))

\* a finished batch with an unnameable file, a skipped file and a failed rename
C9_Witness ==
    /\ pc = "done"
    /\ Len(plan) = Len(files)
    /\ \E a, b, c \in 1..Len(plan) :
          /\ plan[a].outcome = "Unchanged"
          /\ ~tags[plan[a].file].readable
          /\ plan[b].outcome = "Skipped"
          /\ plan[c].outcome = "Failed"
          /\ a < c

\* after stop(): no further file is started, at most the one file in flight is
\* finished, and a worker that has exited left no started file unfinished
C10_Safe ==
    /\ stoppedAt # << >> =>
          /\ Len(started) = stoppedAt[1]
          /\ Len(plan) <= stoppedAt[2] + 1
          /\ Len(started) <= stoppedAt[2] + 1
    /\ pc = "done" => Len(plan) = Len(started)

\* C10: once stop() has been called the worker finishes the file in flight
\* (its rename included), starts no other file, and its next pass through the
\* loop head is its exit.
C10_CooperativeCancellation ==
    /\ []C10_Safe
    /\ [][ /\ (stoppedAt # << >> /\ pc = "head") => pc' = "done"
           /\ (stoppedAt # << >> /\ pc = "body") =>
                 (pc' = "head" /\ Len(plan') = Len(plan) + 1) ]_vars

\* stop() came while the second of three files was in flight; that file was
\* renamed, the third was never started, and the worker has exited
C10_Witness ==
    /\ pc = "done"
    /\ Len(files) = 3
    /\ stoppedAt = <<2, 1>>
    /\ Len(plan) = 2
    /\ ~dry_run
    /\ plan[2].outcome = "Renamed"
    /\ FileAt(fs, plan[2].dest) = plan[2].file
    /\ FileAt(fs, files[3]) = <<"listed", 3>>

\* the progress_updated signals emitted so far, in the order of emission
ProgressEvents == SelectSeq(events, LAMBDA e : e.sig = "progress_updated")

\* C11: every file the GUI worker has processed has a progress event carrying
\* its 1-based index, and the indices of the progress events never decrease.
C11_ProgressEvents ==
    frontend = "gui" =>
        /\ \A k \in 1..(Len(ProgressEvents) - 1) :
              ProgressEvents[k].index <= ProgressEvents[k + 1].index
        /\ \A j \in 1..Len(plan) :
              \E k \in 1..Len(ProgressEvents) : ProgressEvents[k].index = plan[j].index

\* a finished GUI batch of three files with three different outcomes, one of
\* them a skip, and a progress event for each index
C11_Witness ==
    /\ frontend = "gui"
    /\ pc = "done"
    /\ Len(plan) = 3
    /\ plan[1].outcome = "Unchanged"
    /\ plan[2].outcome = "Skipped"
    /\ plan[3].outcome = "Renamed"
    /\ \A j \in 1..3 : \E k \in 1..Len(ProgressEvents) : ProgressEvents[k].index = j

\* C12: when a run of the GUI worker has ended, the last signal it emitted is a
\* task_completed that carries the final success and failure counts.
C12_FinalSummary ==
    (frontend = "gui" /\ pc = "done") =>
        /\ events # << >>
        /\ events[Len(events)] = Completed(success_count, fail_count)

\* the name both fallback texts give under '%artist% - %title%'
FallbackName == UnknownArtist \o <<" ", "-", " ">> \o UnknownTitle

\* C13: a file whose metadata record is entirely empty gets the candidate name
\* '<artist fallback> - <title fallback>' and is not Unchanged, in both front ends.
C13_EmptyMetadataRenameable ==
    \A j \in 1..Len(plan) :
        (plan[j].file[1] # "none" /\ ~tags[plan[j].file].readable
            /\ rename_pattern = DefaultPattern) =>
            /\ plan[j].new_name = FallbackName
            /\ plan[j].outcome # "Unchanged"

\* C19: every rename of a commit batch leads to a path in the directory of the
\* original with the extension of the original, letter case included.
C19_RenameLocality ==
    ~dry_run =>
        \A j \in 1..Len(plan) :
            plan[j].outcome = "Renamed" =>
                /\ plan[j].dest.dir = files[plan[j].index].dir
                /\ plan[j].dest.ext = files[plan[j].index].ext

\* C20: the file_info of the GUI worker has a new_path if and only if it has a
\* candidate name and the file was not skipped.
C20_FileItemInvariant ==
    frontend = "gui" =>
        \A j \in 1..Len(plan) :
            (plan[j].new_path # NoPath) <=>
                (Truthy(plan[j].new_name) /\ plan[j].outcome # "Skipped")

\* the call was a generate_new_name under '%artist% - %title%' with a non-empty
\* title and artist, and it has returned
C14_Case ==
    /\ result.op = "generate_new_name"
    /\ call.pattern = DefaultPattern
    /\ call.metadata.title # << >>
    /\ call.metadata.artist # << >>

\* s neither begins nor ends with whitespace
NoOuterWhitespace(s) == s = << >> \/ (s[1] \notin Whitespace /\ s[Len(s)] \notin Whitespace)

\* s holds the token tok somewhere
Contains(s, tok) == \E k \in 0..(Len(s) - Len(tok)) : SubSeq(s, k + 1, k + Len(tok)) = tok

\* a name, or None for the empty one
OrNone(s) == IF s # << >> THEN s ELSE None

C15_SanitizeIdempotent ==
    result.op = "clean_filename" => clean_filename(result.value) = result.value

\* a string with a forbidden character, a control character and outer whitespace
C15_Witness ==
    /\ result.op = "clean_filename"
    /\ call.name = <<" ", "/", "\t">>
    /\ result.value = <<"_", "_">>
    /\ clean_filename(result.value) = <<"_", "_">>

\* the characters no generated name may hold
UnsafeChars == ForbiddenChars \cup ControlChars \cup LineSeparators

\* C16: a generated name that is not absent holds no forbidden character, no
\* control character and no line or paragraph separator.
C16_FilesystemSafe ==
    (result.op = "generate_new_name" /\ result.value # None) =>
        \A k \in 1..Len(result.value) : result.value[k] \notin UnsafeChars

\* '%album%/%title%' with the album 'A:\' and the title '/X': 'A-X'
C16_Witness ==
    /\ result.op = "generate_new_name"
    /\ call.pattern = AlbumPattern
    /\ call.metadata.album = <<"A", ":", "\\">>
    /\ call.metadata.title = <<"/", "X">>
    /\ result.value = <<"A", "-", "X">>

\* the template without the placeholders of the optional fields that are empty
WithoutAbsent(pattern, metadata) ==
    LET del(s, ph, v) == IF v = << >> THEN StrReplace(s, ph, << >>) ELSE s
    IN  del(del(del(del(pattern, PhAlbum, metadata.album), PhTrack, metadata.track),
                PhYear, metadata.year), PhGenre, metadata.genre)

\* C17: an empty album, track, year or genre contributes nothing to the name:
\* the name is the one the template gives without those placeholders.
C17_AbsentOptionalFields ==
    result.op = "generate_new_name" =>
        result.value =
            (IF frontend = "gui"
             THEN GuiGenerateNewName(call.metadata, WithoutAbsent(call.pattern, call.metadata))
             ELSE TermGenerateNewName(call.metadata, WithoutAbsent(call.pattern, call.metadata)))

\* some step of the tag read failed
C18_ReadFailed ==
    /\ result.op = "extract_metadata"
    /\ \/ call.audio.file = "raises"
       \/ (call.audio.file = "ok" /\ call.audio.ext \in NativeExts /\ call.audio.native
              /\ call.audio.raisesAt > 0)

\* C18 as claimed: extract_metadata never raises, and after a failed step every
\* field of the record is ''.
C18_ExtractorTotalAsClaimed ==
    /\ result.op = "extract_metadata" => ~result.value.raised
    /\ C18_ReadFailed =>
          \A k \in DOMAIN result.value.metadata : result.value.metadata[k] = << >>

\* C18 (amended): extract_metadata never raises; when File() raises or returns
\* None every field is ''; when a later statement raises, the record keeps, trimmed,
\* what was stored before it: the common view, and the native title when the
\* failure came after the title line.
C18_ExtractorTotal ==
    result.op = "extract_metadata" =>
        /\ ~result.value.raised
        /\ call.audio.file # "ok" =>
              \A k \in DOMAIN result.value.metadata : result.value.metadata[k] = << >>
        /\ C18_ReadFailed /\ call.audio.file = "ok" =>
              /\ result.value.metadata.title =
                    Strip(IF call.audio.raisesAt > 1 THEN call.audio.nativeTitle
                          ELSE call.audio.title)
              /\ result.value.metadata.artist = Strip(call.audio.artist)
              /\ \A k \in DOMAIN result.value.metadata \ {"title", "artist"} :
                    result.value.metadata[k] = << >>

\* the common view gave ' X ' and 'Y', the first native line raised, and the
\* record returned holds 'X' and 'Y'
C18_Witness ==
    /\ C18_ReadFailed
    /\ call.audio.file = "ok"
    /\ call.audio.raisesAt = 1
    /\ call.audio.title = <<" ", "X", " ">>
    /\ result.value.metadata.title = <<"X">>
    /\ result.value.metadata.artist = <<"Y">>

\* a batch that renames for real and never under the Overwrite policy
ProbingCommit ==
    ~dry_run /\ (frontend = "terminal" \/ conflict_action \in {"suffix", "skip"})

\* the files stored on a disk, whatever their paths
Stored(fsys) == {fsys[p] : p \in DOMAIN fsys}

\* C24: in a commit batch under Suffix or Skip, and in the terminal front end,
\* the rename just carried out went to a path that did not exist immediately
\* before it, the disk holds as many paths as before the batch and the very
\* same files: no file was replaced.
C24_NoDataLossWithoutOverwrite ==
    ProbingCommit =>
        /\ Cardinality(DOMAIN fs) = Cardinality(DOMAIN fs0)
        /\ Stored(fs) = Stored(fs0)
        /\ (plan # << >> /\ Last.outcome = "Renamed") => ~Exists(probed, Last.dest)

\* a commit without Overwrite whose wanted path was taken by another file: the
\* file went to a probed free path and the file at the wanted path is still there
C24_Witness ==
    /\ ProbingCommit
    /\ plan # << >>
    /\ Last.outcome = "Renamed"
    /\ Last.existed
    /\ Last.wanted # files[Last.index]
    /\ Exists(fs, Last.wanted)
    /\ FileAt(fs, Last.dest) = Last.file
    /\ FileAt(fs, Last.wanted) = FileAt(fs0, Last.wanted)

\* C25: a file whose path already is the path its tags and the template ask for
\* is still at that path when a commit batch has dealt with it.
C25_AlreadyCorrectNameStable ==
    (/\ ~dry_run
     /\ plan # << >>
     /\ Last.file[1] # "none"
     /\ Last.wanted = files[Last.index])
        => FileAt(fs, files[Last.index]) = Last.file

\* what a generated name is claimed never to begin or end with
OuterTrimmed == {"-", "_"} \cup Whitespace

\* C23: a generated name that is not absent neither begins nor ends with '-',
\* '_' or a whitespace character, whatever the template and the metadata, in
\* both front ends.
C23_TrimmedOutput ==
    (result.op = "generate_new_name" /\ Truthy(result.value)) =>
        /\ result.value[1] \notin OuterTrimmed
        /\ result.value[Len(result.value)] \notin OuterTrimmed

\* C21 as claimed: the close event is accepted only when the worker has stopped.
C21_ShutdownAsClaimed == app.window = "closed" => pc \in {"idle", "done"}

\* C21 (amended): closing the window while a worker runs requests cancellation
\* before anything else; the close event is accepted when the worker has
\* stopped or when the 2000 ms of the wait have passed, whichever comes first,
\* and in the second case the worker may still be at or inside a file.
C21_Shutdown ==
    /\ app.window = "waiting" => ~running
    /\ (app.window = "closed" /\ app.wait # "none") => ~running
    /\ (app.window = "closed" /\ app.wait = "joined") => pc = "done"
    /\ (app.window = "closed" /\ pc \notin {"idle", "done"}) => app.wait = "timeout"

\* the window was closed while the worker was inside its second file; the
\* worker finished that file, left its loop, and then the close was accepted
C21_Witness ==
    /\ app.window = "closed"
    /\ app.wait = "joined"
    /\ stoppedAt = <<2, 1>>
    /\ Len(plan) = 2
    /\ pc = "done"
    /\ ~running

\* C22: while a worker runs (from its start until run has returned) no step of
\* the window or of the worker changes the worker's file list, template,
\* dry-run flag or conflict policy, and no further worker is started.
C22_BatchIsolation ==
    [][isRunning =>
          /\ UNCHANGED <<files, rename_pattern, dry_run, conflict_action>>
          /\ app'.workers = app.workers]_vars

\* a worker inside its second file, started for a commit, while the user has
\* meanwhile saved dry-run and auto-rename settings: the buttons that scan,
\* browse or start are disabled, only stop is enabled
C22_Witness ==
    /\ pc = "body"
    /\ idx = 2
    /\ ~dry_run
    /\ app.settings.dry_run
    /\ app.settings.auto_rename
    /\ app.buttons = set_buttons_enabled(FALSE, app.music_files)
    /\ files = app.music_files

=============================================================================
